---- MODULE Spec2Model ----
(***************************************************************************)
(* Media type definition DSL of goa (design/dsl/media_type.go).            *)
(*                                                                         *)
(* Strings are sequences of one-character strings, so that parsing,        *)
(* formatting and camel-casing of identifiers are computed character by    *)
(* character as the Go code and the mime package compute them.             *)
(***************************************************************************)
EXTENDS Integers, Sequences, FiniteSets, TLC

VARIABLES
  MediaTypes,      \* design.Design.MediaTypes: identifier -> definition
  defs,            \* the MediaTypeDefinition objects, in order of allocation
  nodes,           \* the attribute nodes of the views (shared by pointer)
  mediaTypeCount,  \* the counter of synthetic type names
  ctx,             \* the definition under evaluation, 0 at the top level
  panicked,        \* the pass died of a nil dereference
  reported,        \* the diagnostics reported by the last call
  ret,             \* the definition returned by the last call, 0 for nil
  call,            \* the last call
  mimeKeepsBase,   \* the mime package of the build, see ParseMediaType
  response         \* the response definition declared last: whether it is
                   \* under evaluation, and its MediaType

vars == <<MediaTypes, defs, nodes, mediaTypeCount, ctx, panicked,
          reported, ret, call, mimeKeepsBase, response>>

----------------------------------------------------------------------------
(* Bounds of the model.                                                    *)

\* number of MediaTypeDefinition objects that may be allocated
MaxDefs == 3
\* number of collections derived in the passes about views and links
MaxCollections == 1
\* cap of the synthetic-name counter
MaxCount == 2

----------------------------------------------------------------------------
(* Characters and strings.                                                 *)

Upper ==
  <<"A", "B", "C", "D", "E", "F", "G", "H", "I", "J", "K", "L", "M",
    "N", "O", "P", "Q", "R", "S", "T", "U", "V", "W", "X", "Y", "Z">>

Lower ==
  <<"a", "b", "c", "d", "e", "f", "g", "h", "i", "j", "k", "l", "m",
    "n", "o", "p", "q", "r", "s", "t", "u", "v", "w", "x", "y", "z">>

\* the characters in byte order
Ascii ==
  <<" ", "\"", "*", "-", ".", "/">>
    \o <<"0", "1", "2", "3", "4", "5", "6", "7", "8", "9">>
    \o <<":", ";", "=">> \o Upper \o <<"_">> \o Lower

Digits == <<"0", "1", "2", "3", "4", "5", "6", "7", "8", "9">>

PositionIn(s, c) == CHOOSE i \in 1..Len(s) : s[i] = c

Ord(c) == PositionIn(Ascii, c)

IsUpper(c) == \E i \in 1..26 : Upper[i] = c

IsLowerLetter(c) == \E i \in 1..26 : Lower[i] = c

\* unicode.ToLower and unicode.ToUpper
ToLowerChar(c) == IF IsUpper(c) THEN Lower[PositionIn(Upper, c)] ELSE c

ToUpperChar(c) == IF IsLowerLetter(c) THEN Upper[PositionIn(Lower, c)] ELSE c

\* strings.ToLower
ToLower(s) == [i \in 1..Len(s) |-> ToLowerChar(s[i])]

IsSpace(c) == c = " "

\* mime.isTokenChar: any character but a space, a control or a tspecial
IsTokenChar(c) == c \notin {" ", "\"", "/", ":", ";", "="}

\* mime.isToken
IsToken(s) == s # <<>> /\ \A i \in 1..Len(s) : IsTokenChar(s[i])

\* strings.Index for a one-character separator: 0 when absent
Index(s, c) ==
  IF \E i \in 1..Len(s) : s[i] = c
  THEN CHOOSE i \in 1..Len(s) : s[i] = c /\ \A j \in 1..(i - 1) : s[j] # c
  ELSE 0

Drop(s, n) == SubSeq(s, n + 1, Len(s))

\* strings.HasPrefix for a one-character prefix
HasPrefix(s, c) == s # <<>> /\ Head(s) = c

RECURSIVE TrimLeft(_)
TrimLeft(s) == IF s # <<>> /\ IsSpace(Head(s)) THEN TrimLeft(Tail(s)) ELSE s

RECURSIVE TrimRight(_)
TrimRight(s) ==
  IF s # <<>> /\ IsSpace(s[Len(s)]) THEN TrimRight(SubSeq(s, 1, Len(s) - 1)) ELSE s

TrimSpace(s) == TrimLeft(TrimRight(s))

\* the part of s before its first c (all of s when c is absent), and the
\* part from that c on
Before(s, i) == IF i = 0 THEN s ELSE SubSeq(s, 1, i - 1)

\* strings.Split for a one-character separator
RECURSIVE Split(_, _)
SplitAt(s, c, i) ==
  IF i = 0 THEN <<s>> ELSE <<SubSeq(s, 1, i - 1)>> \o Split(Drop(s, i), c)

Split(s, c) == SplitAt(s, c, Index(s, c))

\* lexicographic (byte) order of strings, as sort.Strings
RECURSIVE StrLess(_, _)
StrLess(a, b) ==
  IF a = <<>> THEN b # <<>>
  ELSE IF b = <<>> THEN FALSE
  ELSE IF Head(a) = Head(b) THEN StrLess(Tail(a), Tail(b))
  ELSE Ord(Head(a)) < Ord(Head(b))

Least(S) == CHOOSE x \in S : \A y \in S \ {x} : StrLess(x, y)

RECURSIVE SortStrings(_)
SortedFrom(S, m) == <<m>> \o SortStrings(S \ {m})

SortStrings(S) == IF S = {} THEN <<>> ELSE SortedFrom(S, Least(S))

\* fmt.Sprintf("%d", n) for n >= 0
RECURSIVE ToDecimal(_)
ToDecimal(n) ==
  IF n < 10 THEN <<Digits[n + 1]>> ELSE ToDecimal(n \div 10) \o <<Digits[(n % 10) + 1]>>

----------------------------------------------------------------------------
(* mime.ParseMediaType and mime.FormatMediaType.                           *)

\* mime.consumeToken: the length of the longest prefix of token characters
RECURSIVE TokenLen(_)
TokenLen(s) == IF s # <<>> /\ IsTokenChar(Head(s)) THEN 1 + TokenLen(Tail(s)) ELSE 0

Token(s) == SubSeq(s, 1, TokenLen(s))

AfterToken(s) == Drop(s, TokenLen(s))

\* mime.checkMediaTypeDisposition: TRUE when s is "token" or "token/token"
IsSubtype(rest) ==
  \/ rest = <<>>
  \/ /\ Head(rest) = "/"
     /\ Token(Tail(rest)) # <<>>
     /\ AfterToken(Tail(rest)) = <<>>

checkMediaTypeDisposition(s) == Token(s) # <<>> /\ IsSubtype(AfterToken(s))

\* mime.consumeMediaParam: [param, value, rest]; param is empty on failure
consumeMediaParam(v) ==
  LET r1 == TrimLeft(v)
      r2 == TrimLeft(Tail(r1))
      r3 == TrimLeft(AfterToken(r2))
      r4 == TrimLeft(Tail(r3))
  IN  IF /\ HasPrefix(r1, ";")
         /\ Token(r2) # <<>>
         /\ HasPrefix(r3, "=")
         /\ Token(r4) # <<>>
      THEN [param |-> ToLower(Token(r2)), value |-> Token(r4), rest |-> AfterToken(r4)]
      ELSE [param |-> <<>>, value |-> <<>>, rest |-> v]

NoParams == [k \in {} |-> <<>>]

\* The parameter loop of mime.ParseMediaType: [params, err]
RECURSIVE parseParams(_, _)
parseParam(params, p) ==
  IF p.param = <<>>
  THEN IF TrimSpace(p.rest) = <<";">>
       THEN [params |-> params, err |-> FALSE]
       ELSE [params |-> NoParams, err |-> TRUE]
  ELSE IF p.param \in DOMAIN params /\ params[p.param] # p.value
  THEN [params |-> NoParams, err |-> TRUE]
  ELSE parseParams(p.rest,
         [k \in DOMAIN params \cup {p.param} |->
            IF k = p.param THEN p.value ELSE params[k]])

parseParams(v, params) ==
  IF TrimLeft(v) = <<>> THEN [params |-> params, err |-> FALSE]
  ELSE parseParam(params, consumeMediaParam(v))

parsed(mediatype, pp, keepBase) ==
  IF ~pp.err THEN [mediatype |-> mediatype, params |-> pp.params, err |-> FALSE]
  ELSE [mediatype |-> IF keepBase THEN mediatype ELSE <<>>,
        params |-> NoParams, err |-> TRUE]

parseBase(v, base, keepBase) ==
  IF ~checkMediaTypeDisposition(TrimSpace(ToLower(base)))
  THEN [mediatype |-> <<>>, params |-> NoParams, err |-> TRUE]
  ELSE parsed(TrimSpace(ToLower(base)), parseParams(Drop(v, Len(base)), NoParams),
              keepBase)

\* mime.ParseMediaType.  keepBase is the library version: a malformed
\* parameter returns the media type along with the error (TRUE) or the empty
\* media type (FALSE).
ParseMediaType(v, keepBase) == parseBase(v, Before(v, Index(v, ";")), keepBase)

formatValue(val) == IF IsToken(val) THEN val ELSE <<"\"">> \o val \o <<"\"">>

RECURSIVE formatParams(_, _)
formatParam(k, val, rest) ==
  [s   |-> <<";", " ">> \o ToLower(k) \o <<"=">> \o formatValue(val) \o rest.s,
   bad |-> ~IsToken(k) \/ rest.bad]

formatParams(keys, param) ==
  IF keys = <<>> THEN [s |-> <<>>, bad |-> FALSE]
  ELSE formatParam(Head(keys), param[Head(keys)], formatParams(Tail(keys), param))

formatParts(major, sub, ps) ==
  IF ~IsToken(major) \/ ~IsToken(sub) \/ ps.bad THEN <<>>
  ELSE ToLower(major) \o <<"/">> \o ToLower(sub) \o ps.s

formatAt(t, slash, ps) ==
  IF slash = 0 THEN IF IsToken(t) /\ ~ps.bad THEN ToLower(t) \o ps.s ELSE <<>>
  ELSE formatParts(SubSeq(t, 1, slash - 1), Drop(t, slash), ps)

\* mime.FormatMediaType: the empty string when a part is not a token
FormatMediaType(t, param) ==
  formatAt(t, Index(t, "/"), formatParams(SortStrings(DOMAIN param), param))

----------------------------------------------------------------------------
(* inflect.Camelize.                                                       *)

isSpacerChar(c) == c \in {"_", " ", ":", "-"}

\* splitAtCaseChangeWithTitlecase joined: word is the length of the word in
\* progress when c is read, w after a case change or a spacer ended it
RECURSIVE camelizeFrom(_, _)
camelizeChar(s, c, w) ==
  IF isSpacerChar(c) THEN camelizeFrom(Tail(s), w)
  ELSE <<IF w > 0 THEN ToLowerChar(c) ELSE ToUpperChar(c)>>
         \o camelizeFrom(Tail(s), w + 1)

camelizeFrom(s, word) ==
  IF s = <<>> THEN <<>>
  ELSE camelizeChar(s, Head(s),
         IF word > 0 /\ (IsUpper(Head(s)) \/ isSpacerChar(Head(s))) THEN 0 ELSE word)

Camelize(s) == camelizeFrom(s, 0)

----------------------------------------------------------------------------
(* Inputs of the DSL calls.                                                *)

Identifiers ==
  { <<"a", "/", "v", ".", "b">>,
    <<"A", "/", "V", ".", "B">>,
    <<"v", ".", "b">>,
    <<"a", "/", "v", ".", "b", ";", "T", "y", "p", "e", "=", "c">>,
    <<"a", "/", "b", ";", "x">> }

\* identifiers of the pass about the counter: the piece that names the
\* type is empty in the first three
CounterIds ==
  { <<"a", "/", "b", ".">>,
    <<"a", "/", "c", ".">>,
    <<"a", "/", "b", ";", "x">>,
    <<"v", ".", "b">> }

\* the identifiers of the passes that are about views and links
ElementIds == { <<"a", "/", "v", ".", "b">> }

ViewNames == {"default", "tiny"}

LinkNames == {"account", "origin"}

\* the variadic view argument of Link
LinkViews == { <<>>, <<"tiny">>, <<"tiny", "default">> }

\* The values given to Media: a media type (m, 0 for a nil pointer), a
\* string, or a value of another kind (an integer, the nil interface).
MediaStrings == { <<"t", "/", "j">> }

MediaValue(kind, m, str) == [kind |-> kind, m |-> m, str |-> str]

MediaValues(n) ==
  {MediaValue("MediaType", m, <<>>) : m \in 0..n}
    \cup {MediaValue("string", 0, str) : str \in MediaStrings}
    \cup {MediaValue("int", 0, <<>>), MediaValue("nil", 0, <<>>)}

\* the names given to TypeName
TypeNames == { <<"C", "u", "s", "t", "o", "m">> }

\* the attributes a media type may declare: Attribute(name, type, validation)
Declared ==
  { [name |-> "id",   at |-> [Type |-> "Integer", Validation |-> "required", View |-> ""]],
    [name |-> "href", at |-> [Type |-> "String",  Validation |-> "uri",      View |-> ""]] }

\* what Attribute(name) leaves in the attribute node of a view block
Placeholder == [Type |-> "String", Validation |-> "none", View |-> ""]

NoAttrs == [n \in {} |-> Placeholder]

\* A view block is what executing it does: the Attribute(name) calls it makes
\* and the diagnostics it reports.
ViewBlock(names, errs) == [names |-> names, errs |-> errs]

ViewBlocks ==
  { ViewBlock({}, {}),
    ViewBlock({"id"}, {}),
    ViewBlock({"id", "links"}, {}),
    ViewBlock({"id"}, {"InvalidArgument"}) }

\* the variadic dsl argument of View
ViewDSLs == { <<>> } \cup { <<b>> : b \in ViewBlocks }

\* one DSL call of the block handed to CollectionOf
BlockOp(op, name, tn, dsl, view) ==
  [op |-> op, name |-> name, tn |-> tn, dsl |-> dsl, view |-> view]

SetTypeName(tn) == BlockOp("TypeName", "", tn, <<>>, <<>>)

InheritView(name) == BlockOp("View", name, <<>>, <<>>, <<>>)

DefineView(name, block) == BlockOp("View", name, <<>>, <<block>>, <<>>)

DefineLink(name, view) == BlockOp("Link", name, <<>>, <<>>, view)

\* the variadic dsl argument of CollectionOf: no block, or one block (the
\* sequence of its DSL calls)
RegistryDSLs ==
  { <<>>,
    << <<SetTypeName(<<"C", "u", "s", "t", "o", "m">>)>> >>,
    << <<InheritView("default")>> >> }

ViewCollectionDSLs ==
  { <<>>,
    << <<InheritView("default")>> >>,
    << <<DefineView("default", ViewBlock({"id"}, {}))>> >>,
    << <<InheritView("default"), DefineView("default", ViewBlock({"id"}, {}))>> >> }

LinkCollectionDSLs ==
  { <<>>,
    << <<DefineLink("account", <<>>), DefineLink("account", <<"tiny">>)>> >> }

\* the store pass: one attribute, one view name, one link name
StoreAttributes == { d \in Declared : d.name = "id" }

StoreViewDSLs == { <<>>, <<ViewBlock({"id"}, {})>> }

StoreCollectionDSLs ==
  { <<>>,
    << <<SetTypeName(<<"C", "u", "s", "t", "o", "m">>), InheritView("default"),
         DefineLink("account", <<>>)>> >> }

----------------------------------------------------------------------------
(* Identifiers: what MediaType and CollectionOf compute from them.         *)

Json == <<"/", "j", "s", "o", "n">>

MediaTypePrefix == <<"M", "e", "d", "i", "a", "T", "y", "p", "e">>

CollectionSuffix == <<"C", "o", "l", "l", "e", "c", "t", "i", "o", "n">>

TypeKey == <<"t", "y", "p", "e">>

CollectionValue == <<"c", "o", "l", "l", "e", "c", "t", "i", "o", "n">>

\* lines 71-74 without the append of line 73: no default subtype
WithSubtype_Never(t) == t

\* lines 71-74 and 293-296: the default subtype
WithSubtype(t) == IF Index(t, "/") = 0 THEN t \o Json ELSE t

normalized(p) == FormatMediaType(WithSubtype(p.mediatype), p.params)

\* lines 66-75 of MediaType: the canonical identifier of an identifier
Normalize(identifier, keepBase) == normalized(ParseMediaType(identifier, keepBase))

lastElem(elems) == Split(elems[Len(elems)], "/")[1]

\* lines 76-78 of MediaType: the type name computed from the identifier
DefaultTypeName(identifier) == Camelize(lastElem(Split(identifier, ".")))

\* lines 297-306 without the hasType test: the type is always collection
WithType_Overwrites(params) ==
  [k \in DOMAIN params \cup {TypeKey} |->
     IF k = TypeKey THEN CollectionValue ELSE params[k]]

\* lines 297-306 of CollectionOf: the parameters with a type
WithType(params) ==
  IF TypeKey \in DOMAIN params THEN params
  ELSE [k \in DOMAIN params \cup {TypeKey} |->
          IF k = TypeKey THEN CollectionValue ELSE params[k]]

\* lines 293-307 of CollectionOf: the identifier of the collection, from
\* the parsed identifier of its element
CollectionIdentifier(p) ==
  IF p.err THEN <<>>
  ELSE FormatMediaType(WithSubtype(p.mediatype), WithType(p.params))

\* The strings a pass can hand to the functions above, and the results for
\* each of them, computed once: the identifiers given to MediaType, their
\* canonical forms and the identifiers of collections.
RawIds == Identifiers \cup ElementIds \cup CounterIds

CanonIds == { Normalize(v, k) : v \in RawIds, k \in BOOLEAN }

CollectionIds == { CollectionIdentifier(ParseMediaType(v, FALSE)) : v \in CanonIds }

KnownIds == RawIds \cup CanonIds \cup CollectionIds

Parsed == [v \in KnownIds |-> [k \in BOOLEAN |-> ParseMediaType(v, k)]]

Canonical == [v \in RawIds |-> [k \in BOOLEAN |-> Normalize(v, k)]]

TypeNameOf == [v \in CanonIds |-> DefaultTypeName(v)]

CollectionIdOf == [v \in KnownIds |-> CollectionIdentifier(ParseMediaType(v, FALSE))]

----------------------------------------------------------------------------
(* The program state as one value: the operators below are the DSL         *)
(* functions, from the state before the call to the state after it.        *)

State ==
  [MediaTypes |-> MediaTypes, defs |-> defs, nodes |-> nodes,
   mediaTypeCount |-> mediaTypeCount, ctx |-> ctx, panicked |-> panicked,
   reported |-> reported, ret |-> ret, response |-> response]

\* ReportError: records a diagnostic, the pass goes on
ReportError(st, kind) == [st EXCEPT !.reported = @ \cup {kind}]

\* design.NewMediaTypeDefinition: an object-rooted definition without
\* attributes, views or links.  Ran: its DSL has been executed.
NewMediaTypeDefinition(typeName, identifier) ==
  [TypeName |-> typeName, Identifier |-> identifier, Type |-> "Object",
   attrs |-> NoAttrs, ElemType |-> 0,
   Views |-> [n \in {} |-> [Name |-> "", Parent |-> 0, at |-> 0]],
   Links |-> [n \in {} |-> [Name |-> "", View |-> "", Parent |-> 0]],
   Ran |-> FALSE]

\* mediaTypeDefinition(failIfNotMT): the current context is a media type
mediaTypeDefinition(st) == st.ctx # 0

\* topLevelDefinition(failItNotTopLevel): no definition is being evaluated
topLevelDefinition(st) == st.ctx = 0 /\ ~st.response.open

\* responseDefinition(failIfNotResponse): the current context is a response
responseDefinition(st) == st.ctx = 0 /\ st.response.open

\* m[k] = v of a Go map
Put(m, k, v) == [x \in DOMAIN m \cup {k} |-> IF x = k THEN v ELSE m[x]]

\* lines 87-89 without the test of lines 83-86: a second declaration
\* replaces the first
register_Overwrites(st, id, typeName) ==
  [st EXCEPT !.defs = Append(@, NewMediaTypeDefinition(typeName, id)),
             !.MediaTypes = Put(@, id, Len(st.defs) + 1),
             !.ret = Len(st.defs) + 1]

\* lines 83-89 of MediaType
register(st, id, typeName) ==
  IF id \in DOMAIN st.MediaTypes THEN ReportError(st, "DuplicateDefinition")
  ELSE [st EXCEPT !.defs = Append(@, NewMediaTypeDefinition(typeName, id)),
                  !.MediaTypes = Put(@, id, Len(st.defs) + 1),
                  !.ret = Len(st.defs) + 1]

\* lines 78-82 without the increment of line 80: the counter stands still
named_NoIncrement(st, id, camel) ==
  IF camel = <<>>
  THEN register(st, id, MediaTypePrefix \o ToDecimal(st.mediaTypeCount + 1))
  ELSE register(st, id, camel)

\* lines 78-82 of MediaType
named(st, id, camel) ==
  IF camel = <<>>
  THEN register([st EXCEPT !.mediaTypeCount = @ + 1], id,
                MediaTypePrefix \o ToDecimal(st.mediaTypeCount + 1))
  ELSE register(st, id, camel)

\* lines 75-89 of MediaType
declare(st, id) == named(st, id, TypeNameOf[id])

MediaType(st, identifier, keepBase) ==
  IF ~topLevelDefinition(st) THEN ReportError(st, "InvalidContext")
  ELSE declare(IF Parsed[identifier][keepBase].err
               THEN ReportError(st, "InvalidIdentifier") ELSE st,
               Canonical[identifier][keepBase])

TypeName(st, name) ==
  IF mediaTypeDefinition(st)
  THEN [st EXCEPT !.defs[st.ctx].TypeName = name]
  ELSE ReportError(st, "InvalidContext")

\* DataType.ToObject of a media type: its attributes when the root is an
\* object, nil (no attribute) otherwise
ToObject(d) == IF d.Type = "Object" THEN d.attrs ELSE NoAttrs

\* lines 219-225 without the assignment of line 221: the view keeps what its
\* block collected
resolve_KeepsPlaceholder(o, mto) == o

\* lines 219-225 of View: the attributes of the view, each replaced by the
\* attribute of the media type of the same name
resolve(o, mto) == [n \in DOMAIN o |-> IF n \in DOMAIN mto THEN mto[n] ELSE o[n]]

\* line 222 without its report: a name the media type lacks goes unnoticed
unknown_Unreported(o, mto) == FALSE

unknown(o, mto) == \E n \in DOMAIN o : n \notin DOMAIN mto /\ n # "links"

\* lines 213-231 of View: at is the attribute node of the view (a new one
\* when it is Len(st.nodes) + 1), o its attributes and mto those of the
\* media type
viewOf(st, name, at, o, mto) ==
  [(IF unknown(o, mto) THEN ReportError(st, "UnknownAttribute") ELSE st) EXCEPT
     !.nodes = IF at = Len(st.nodes) + 1 THEN Append(@, resolve(o, mto))
               ELSE [@ EXCEPT ![at] = resolve(o, mto)],
     !.defs[st.ctx].Views = Put(@, name, [Name |-> name, Parent |-> st.ctx, at |-> at])]

\* lines 215-218 of View
attributesOf(st, d) ==
  IF d.Type = "Array" THEN ToObject(st.defs[d.ElemType]) ELSE ToObject(d)

\* lines 213-231 of View; on a root that is neither an object nor an array
\* mt.Type.ToArray() is nil and line 216 panics
storeView(st, name, at, o) ==
  IF st.defs[st.ctx].Type \in {"Object", "Array"}
  THEN viewOf(st, name, at, o, attributesOf(st, st.defs[st.ctx]))
  ELSE [st EXCEPT !.panicked = TRUE]

\* lines 195-196 and 212-213 of View: the view block fills a new attribute
\* node; without an Attribute call its Type stays nil and line 213 panics
viewFromBlock(st, name, block) ==
  IF block.errs # {} THEN [st EXCEPT !.reported = @ \cup block.errs]
  ELSE IF block.names = {} THEN [st EXCEPT !.panicked = TRUE]
  ELSE storeView(st, name, Len(st.nodes) + 1, [n \in block.names |-> Placeholder])

\* lines 197-210 and 227-231 with the element's ViewDefinition stored as it
\* is: the inherited view keeps the element as its Parent
viewFromElement_SharesView(st, name, pa) ==
  IF name \in DOMAIN pa.Views
  THEN [st EXCEPT !.defs[st.ctx].Views = Put(@, name, pa.Views[name])]
  ELSE ReportError(st, "UnknownView")

\* lines 197-210 without the report of lines 206-208: a view the element
\* lacks is skipped in silence
viewFromElement_Silent(st, name, pa) ==
  IF name \in DOMAIN pa.Views
  THEN storeView(st, name, pa.Views[name].at, st.nodes[pa.Views[name].at])
  ELSE st

\* lines 197-210 of View: pa is the element media type of the collection
viewFromElement(st, name, pa) ==
  IF name \in DOMAIN pa.Views
  THEN storeView(st, name, pa.Views[name].at, st.nodes[pa.Views[name].at])
  ELSE ReportError(st, "UnknownView")

\* lines 185-232 without the test of lines 181-184: any root takes views
viewOn_AnyRoot(st, d, name, dsl) ==
  IF name \in DOMAIN d.Views THEN ReportError(st, "DuplicateDefinition")
  ELSE IF Len(dsl) > 0 THEN viewFromBlock(st, name, dsl[1])
  ELSE IF d.Type = "Array" THEN viewFromElement(st, name, st.defs[d.ElemType])
  ELSE st

\* lines 181-232 without the test of lines 188-191: a second view of the
\* same name replaces the first
viewOn_Redefines(st, d, name, dsl) ==
  IF d.Type \notin {"Object", "Array"} THEN ReportError(st, "UnsupportedViewTarget")
  ELSE IF Len(dsl) > 0 THEN viewFromBlock(st, name, dsl[1])
  ELSE IF d.Type = "Array" THEN viewFromElement(st, name, st.defs[d.ElemType])
  ELSE st

\* lines 181-232 of View, d the media type under definition
viewOn(st, d, name, dsl) ==
  IF d.Type \notin {"Object", "Array"} THEN ReportError(st, "UnsupportedViewTarget")
  ELSE IF name \in DOMAIN d.Views THEN ReportError(st, "DuplicateDefinition")
  ELSE IF Len(dsl) > 0 THEN viewFromBlock(st, name, dsl[1])
  ELSE IF d.Type = "Array" THEN viewFromElement(st, name, st.defs[d.ElemType])
  ELSE st

View(st, name, dsl) ==
  IF mediaTypeDefinition(st) THEN viewOn(st, st.defs[st.ctx], name, dsl)
  ELSE ReportError(st, "InvalidContext")

\* lines 268-277 with a return after the report of line 270: a link with
\* two views is not stored
linkOf_Rejects(st, name, view) ==
  IF Len(view) > 1 THEN ReportError(st, "InvalidLinkSyntax")
  ELSE [st EXCEPT
          !.defs[st.ctx].Links =
             Put(@, name, [Name |-> name, Parent |-> st.ctx,
                           View |-> IF Len(view) > 0 THEN view[1] ELSE "link"])]

\* lines 268-277 of Link
linkOf(st, name, view) ==
  [(IF Len(view) > 1 THEN ReportError(st, "InvalidLinkSyntax") ELSE st) EXCEPT
     !.defs[st.ctx].Links =
        Put(@, name, [Name |-> name, Parent |-> st.ctx,
                      View |-> IF Len(view) > 0 THEN view[1] ELSE "link"])]

\* lines 258-279 without the test of lines 263-266: a second link of the
\* same name replaces the first
Link_Redefines(st, name, view) ==
  IF ~mediaTypeDefinition(st) THEN ReportError(st, "InvalidContext")
  ELSE linkOf(st, name, view)

Link(st, name, view) ==
  IF ~mediaTypeDefinition(st) THEN ReportError(st, "InvalidContext")
  ELSE IF name \in DOMAIN st.defs[st.ctx].Links
  THEN ReportError(st, "DuplicateDefinition")
  ELSE linkOf(st, name, view)

\* Attribute(name, type, validation) inside Attributes: declares (or
\* redeclares) an attribute of the media type under definition
Attribute(st, decl) ==
  IF st.defs[st.ctx].Type # "Object" THEN ReportError(st, "InvalidArgument")
  ELSE [st EXCEPT !.defs[st.ctx].attrs = Put(@, decl.name, decl.at)]

\* Attributes(dsl): executeDSL(dsl, mt) for a block of one Attribute call
Attributes(st, decl) ==
  IF mediaTypeDefinition(st) THEN Attribute(st, decl)
  ELSE ReportError(st, "InvalidContext")

\* executeDSL(dsl, mt) for the block handed to CollectionOf: the calls of
\* the block, in order, in the context of mt; a panic ends it
RECURSIVE executeDSL(_, _)
executeOp(st, op) ==
  CASE op.op = "TypeName" -> TypeName(st, op.tn)
    [] op.op = "View"     -> View(st, op.name, op.dsl)
    [] op.op = "Link"     -> Link(st, op.name, op.view)

executeDSL(st, ops) ==
  IF ops = <<>> \/ st.panicked THEN st
  ELSE executeDSL(executeOp(st, Head(ops)), Tail(ops))

\* lines 309-317 with line 311 after the block: the derived name replaces
\* the name the block set
collection_NameAfterBlock(st, m, dsl, id, typeName) ==
  TypeName(executeDSL([st EXCEPT
                         !.defs = Append(@, [NewMediaTypeDefinition(typeName, id) EXCEPT
                                               !.Type = "Array", !.ElemType = m,
                                               !.Ran = TRUE]),
                         !.ctx = Len(st.defs) + 1],
                      IF Len(dsl) > 0 THEN dsl[1] ELSE <<>>),
           typeName)

\* lines 309-317 of CollectionOf: the definition and the execution of its
\* DSL, in the context of the new definition
collection(st, m, dsl, id, typeName) ==
  executeDSL([st EXCEPT
                !.defs = Append(@, [NewMediaTypeDefinition(typeName, id) EXCEPT
                                      !.Type = "Array", !.ElemType = m, !.Ran = TRUE]),
                !.ctx = Len(st.defs) + 1],
             IF Len(dsl) > 0 THEN dsl[1] ELSE <<>>)

\* lines 318-321 without the test of line 318: the collection is registered
\* whatever its DSL reported
registerCollection_Always(st, id, s) ==
  IF s.panicked THEN s
  ELSE [s EXCEPT !.ctx = st.ctx, !.ret = Len(st.defs) + 1,
                 !.MediaTypes = Put(@, id, Len(st.defs) + 1)]

\* lines 318-321 of CollectionOf: s is the state after the DSL, run from st
registerCollection(st, id, s) ==
  IF s.panicked THEN s
  ELSE IF s.reported = st.reported
  THEN [s EXCEPT !.ctx = st.ctx, !.ret = Len(st.defs) + 1,
                 !.MediaTypes = Put(@, id, Len(st.defs) + 1)]
  ELSE [s EXCEPT !.ctx = st.ctx, !.ret = Len(st.defs) + 1]

derive(st, m, dsl, id, typeName) ==
  registerCollection(st, id, collection(st, m, dsl, id, typeName))

CollectionOf(st, m, dsl, keepBase) ==
  IF Parsed[st.defs[m].Identifier][keepBase].err
  THEN ReportError(st, "InvalidIdentifier")
  ELSE derive(st, m, dsl, CollectionIdOf[st.defs[m].Identifier],
              st.defs[m].TypeName \o CollectionSuffix)

\* lines 103-109 with the string case missing: a string is reported as a
\* value of the wrong kind
mediaOf_NoString(st, val) ==
  IF val.kind = "MediaType"
  THEN IF val.m = 0 THEN [st EXCEPT !.panicked = TRUE]
       ELSE [st EXCEPT !.response.MediaType = st.defs[val.m].Identifier]
  ELSE ReportError(st, "InvalidArgument")

\* lines 103-109 of Media; m.Identifier of a nil pointer panics
mediaOf(st, val) ==
  IF val.kind = "MediaType"
  THEN IF val.m = 0 THEN [st EXCEPT !.panicked = TRUE]
       ELSE [st EXCEPT !.response.MediaType = st.defs[val.m].Identifier]
  ELSE IF val.kind = "string"
  THEN [st EXCEPT !.response.MediaType = val.str]
  ELSE ReportError(st, "InvalidArgument")

Media(st, val) ==
  IF responseDefinition(st) THEN mediaOf(st, val)
  ELSE ReportError(st, "InvalidContext")

\* A block assigns a scalar type to the root attribute of the media type
\* under definition (mt.Type = design.String), before it declares anything
AssignType(st, t) ==
  IF ~mediaTypeDefinition(st) THEN ReportError(st, "InvalidContext")
  ELSE IF st.defs[st.ctx].Type # "Object" THEN st
  ELSE [st EXCEPT !.defs[st.ctx].Type = t, !.defs[st.ctx].attrs = NoAttrs]

----------------------------------------------------------------------------
(* The state machine.                                                      *)

\* The last call: the function, the identifier given to MediaType, the
\* media type it acted on and the name given to View or Link.
NoCall == [op |-> "", id |-> <<>>, m |-> 0, name |-> ""]

\* a response definition: r.MediaType is empty until Media sets it
NoResponse == [open |-> FALSE, MediaType |-> <<>>]

Init ==
  /\ MediaTypes = [k \in {} |-> 0]
  /\ defs = <<>>
  /\ nodes = <<>>
  /\ mediaTypeCount = 0
  /\ ctx = 0
  /\ panicked = FALSE
  /\ reported = {}
  /\ ret = 0
  /\ call = NoCall
  /\ mimeKeepsBase \in BOOLEAN
  /\ response = NoResponse

\* The identifiers of the passes about views and links are well formed, and
\* the releases of the mime package agree on them: these passes are built
\* with the current one.
InitCurrent == Init /\ mimeKeepsBase

\* the state a call starts from: nothing reported, nothing returned yet
Begin == [State EXCEPT !.reported = {}, !.ret = 0]

\* a DSL call c from state Begin that ends in state r
Commit(r, c) ==
  /\ ~panicked
  /\ Len(r.defs) <= MaxDefs
  /\ r.mediaTypeCount <= MaxCount
  /\ MediaTypes' = r.MediaTypes
  /\ defs' = r.defs
  /\ nodes' = r.nodes
  /\ mediaTypeCount' = r.mediaTypeCount
  /\ ctx' = r.ctx
  /\ panicked' = r.panicked
  /\ reported' = r.reported
  /\ ret' = r.ret
  /\ call' = c
  /\ response' = r.response
  /\ UNCHANGED mimeKeepsBase

CallMediaType(ids) ==
  \E identifier \in ids :
    Commit(MediaType(Begin, identifier, mimeKeepsBase),
           [NoCall EXCEPT !.op = "MediaType", !.id = identifier])

\* the engine evaluates the block of a media type: the definition becomes
\* the current context
RunDSL ==
  /\ ~panicked
  /\ ctx = 0
  /\ ~response.open
  /\ \E mt \in 1..Len(defs) :
       /\ ~defs[mt].Ran
       /\ defs' = [defs EXCEPT ![mt].Ran = TRUE]
       /\ ctx' = mt
       /\ reported' = {}
       /\ ret' = 0
       /\ call' = [NoCall EXCEPT !.op = "RunDSL", !.m = mt]
       /\ UNCHANGED <<MediaTypes, nodes, mediaTypeCount, panicked, mimeKeepsBase,
                    response>>

\* the block returns: back to the top level
EndDSL ==
  /\ ~panicked
  /\ ctx # 0
  /\ ctx' = 0
  /\ reported' = {}
  /\ ret' = 0
  /\ call' = [NoCall EXCEPT !.op = "EndDSL", !.m = ctx]
  /\ UNCHANGED <<MediaTypes, defs, nodes, mediaTypeCount, panicked,
               mimeKeepsBase, response>>

\* Response(name, dsl): the engine evaluates the block of a new response
CallResponse ==
  /\ ~panicked
  /\ ctx = 0
  /\ ~response.open
  /\ response' = [NoResponse EXCEPT !.open = TRUE]
  /\ reported' = {}
  /\ ret' = 0
  /\ call' = [NoCall EXCEPT !.op = "Response"]
  /\ UNCHANGED <<MediaTypes, defs, nodes, mediaTypeCount, ctx, panicked,
               mimeKeepsBase>>

\* the block of the response returns
EndResponse ==
  /\ ~panicked
  /\ response.open
  /\ response' = [response EXCEPT !.open = FALSE]
  /\ reported' = {}
  /\ ret' = 0
  /\ call' = [NoCall EXCEPT !.op = "EndResponse"]
  /\ UNCHANGED <<MediaTypes, defs, nodes, mediaTypeCount, ctx, panicked,
               mimeKeepsBase>>

CallMedia ==
  \E val \in MediaValues(Len(defs)) :
    Commit(Media(Begin, val),
           [NoCall EXCEPT !.op = "Media", !.m = val.m, !.name = val.kind])

CallTypeName(names) ==
  \E tn \in names :
    Commit(TypeName(Begin, tn),
           [NoCall EXCEPT !.op = "TypeName", !.m = ctx])

CallAttributes(decls) ==
  \E decl \in decls :
    Commit(Attributes(Begin, decl),
           [NoCall EXCEPT !.op = "Attributes", !.m = ctx, !.name = decl.name])

CallAssignType ==
  Commit(AssignType(Begin, "String"),
         [NoCall EXCEPT !.op = "AssignType", !.m = ctx])

CallView(names, dsls) ==
  \E name \in names, dsl \in dsls :
    Commit(View(Begin, name, dsl),
           [NoCall EXCEPT !.op = "View", !.m = ctx, !.name = name])

CallLink(names, views) ==
  \E name \in names, view \in views :
    Commit(Link(Begin, name, view),
           [NoCall EXCEPT !.op = "Link", !.m = ctx, !.name = name])

\* max: the number of collections the pass derives
CallCollectionOf(dsls, max) ==
  /\ Cardinality({d \in 1..Len(defs) : defs[d].Type = "Array"}) < max
  /\ \E m \in 1..Len(defs), dsl \in dsls :
       Commit(CollectionOf(Begin, m, dsl, mimeKeepsBase),
              [NoCall EXCEPT !.op = "CollectionOf", !.m = m])

\* A pass that declares media types and collections: the registry.
NextRegistry ==
  \/ CallMediaType(Identifiers)
  \/ CallCollectionOf(RegistryDSLs, MaxDefs)

SpecRegistry == Init /\ [][NextRegistry]_vars

\* A pass that declares the attributes and the views of a media type and of
\* its collections.
NextViews ==
  \/ CallMediaType(ElementIds)
  \/ RunDSL
  \/ EndDSL
  \/ CallAttributes(Declared)
  \/ CallAssignType
  \/ CallView(ViewNames, ViewDSLs)
  \/ CallCollectionOf(ViewCollectionDSLs, MaxCollections)

SpecViews == InitCurrent /\ [][NextViews]_vars

\* A pass that declares the links of a media type and of its collections.
NextLinks ==
  \/ CallMediaType(ElementIds)
  \/ RunDSL
  \/ EndDSL
  \/ CallTypeName(TypeNames)
  \/ CallAttributes(Declared)
  \/ CallLink(LinkNames, LinkViews)
  \/ CallCollectionOf(LinkCollectionDSLs, MaxCollections)

SpecLinks == InitCurrent /\ [][NextLinks]_vars

\* A pass that declares media types whose names come from the counter.
NextCounter ==
  \/ CallMediaType(CounterIds)
  \/ CallCollectionOf({<<>>}, MaxCollections)

SpecCounter == Init /\ [][NextCounter]_vars

\* A pass that declares media types and the responses that use them.
NextResponses ==
  \/ CallMediaType(Identifiers)
  \/ CallResponse
  \/ EndResponse
  \/ CallMedia

SpecResponses == Init /\ [][NextResponses]_vars

\* A pass that declares media types, their attributes, views and links, and collections
\* that rename themselves, inherit a view and declare a link.
NextStore ==
  \/ CallMediaType(ElementIds)
  \/ RunDSL
  \/ EndDSL
  \/ CallTypeName(TypeNames)
  \/ CallAttributes(StoreAttributes)
  \/ CallView({"default"}, StoreViewDSLs)
  \/ CallLink({"account"}, LinkViews)
  \/ CallCollectionOf(StoreCollectionDSLs, MaxCollections)

SpecStore == InitCurrent /\ [][NextStore]_vars

----------------------------------------------------------------------------
(* The registry: MediaType and CollectionOf (SpecRegistry).                *)

AV_B == <<"a", "/", "v", ".", "b">>

AV_B_TypeC == <<"a", "/", "v", ".", "b", ";", " ", "t", "y", "p", "e", "=", "c">>

rejectedAsDuplicate(r) ==
  /\ "DuplicateDefinition" \in r.reported
  /\ r.ret = 0
  /\ r.MediaTypes = MediaTypes
  /\ r.defs = defs

\* C1: a MediaType call whose identifier normalizes to an identifier that an
\* earlier call registered reports DuplicateDefinition, returns nil, and
\* leaves the registry and the registered definition as they were.
C1_DuplicateMediaType ==
  \A identifier \in Identifiers :
    (ctx = 0 /\ ~panicked /\ Canonical[identifier][mimeKeepsBase] \in DOMAIN MediaTypes)
      => rejectedAsDuplicate(MediaType(Begin, identifier, mimeKeepsBase))

\* "A/V.B" declared after "a/v.b" (or after itself): both normalize to "a/v.b"
C1_SecondDeclarationRejected ==
  /\ call.op = "MediaType"
  /\ call.id = <<"A", "/", "V", ".", "B">>
  /\ "DuplicateDefinition" \in reported
  /\ ret = 0
  /\ AV_B \in DOMAIN MediaTypes
  /\ defs[MediaTypes[AV_B]].Identifier = AV_B

\* C2: a MediaType call with a malformed identifier reports
\* InvalidIdentifier, returns nil and leaves the registry unchanged.
C2_MalformedIdentifierRejected ==
  [][(call'.op = "MediaType" /\ ctx = 0 /\ Parsed[call'.id][mimeKeepsBase].err)
       => /\ "InvalidIdentifier" \in reported'
          /\ ret' = 0
          /\ MediaTypes' = MediaTypes]_vars

setsTypeName(dsl) ==
  Len(dsl) > 0 /\ \E i \in 1..Len(dsl[1]) : dsl[1][i].op = "TypeName"

\* d: the collection derived from m; p and pm: their identifiers, parsed
derivedFrom(d, m, p, pm) ==
  /\ ~p.err
  /\ p.mediatype = pm.mediatype
  /\ TypeKey \in DOMAIN p.params
  /\ TypeKey \in DOMAIN pm.params
       => p.params = pm.params /\ d.Identifier = m.Identifier
  /\ TypeKey \notin DOMAIN pm.params
       => /\ DOMAIN p.params = DOMAIN pm.params \cup {TypeKey}
          /\ p.params[TypeKey] = CollectionValue
          /\ \A k \in DOMAIN pm.params : p.params[k] = pm.params[k]

derived(r, m, dsl) ==
  /\ r.ret = Len(defs) + 1
  /\ derivedFrom(r.defs[r.ret], defs[m],
                 Parsed[r.defs[r.ret].Identifier][mimeKeepsBase],
                 Parsed[defs[m].Identifier][mimeKeepsBase])
  /\ ~setsTypeName(dsl) => r.defs[r.ret].TypeName = defs[m].TypeName \o CollectionSuffix

C9_AlwaysRegistered ==
  [][(call'.op = "CollectionOf" /\ ret' # 0)
       => /\ defs'[ret'].Identifier \in DOMAIN MediaTypes'
          /\ MediaTypes'[defs'[ret'].Identifier] = ret']_vars

registeredUnlessReported(r) ==
  r.ret # 0 =>
    /\ r.ret = Len(defs) + 1
    /\ r.reported = {} => r.MediaTypes = Put(MediaTypes, r.defs[r.ret].Identifier, r.ret)
    /\ r.reported # {} => r.MediaTypes = MediaTypes

\* C9, amended: whenever CollectionOf returns a definition and its block
\* reported no diagnostic, the registry afterwards maps the identifier of
\* that definition to it, whether or not the identifier was registered; when
\* the block reported a diagnostic the definition is returned and the
\* registry is left as it was.
C9_RegisteredUnlessReported ==
  \A m \in 1..Len(defs), dsl \in RegistryDSLs :
    ~panicked => registeredUnlessReported(CollectionOf(Begin, m, dsl, mimeKeepsBase))

\* a second collection of the same element takes the entry of the first
C9_EntryOverwritten ==
  /\ call.op = "CollectionOf"
  /\ ret # 0
  /\ reported = {}
  /\ MediaTypes[defs[ret].Identifier] = ret
  /\ \E d \in 1..Len(defs) :
       d # ret /\ defs[d].Identifier = defs[ret].Identifier /\ defs[d].Type = "Array"

----------------------------------------------------------------------------
(* Views (SpecViews).                                                      *)

\* a View call can be made on an object-rooted media type that has no view
\* of that name, with a block that reports nothing and lists a name
definesView(name, block) ==
  /\ ctx # 0
  /\ ~panicked
  /\ defs[ctx].Type = "Object"
  /\ name \notin DOMAIN defs[ctx].Views
  /\ block.errs = {}
  /\ block.names # {}

\* the attributes of the view name of media type mt in state r
viewAttributes(r, mt, name) == r.nodes[r.defs[mt].Views[name].at]

absent(names, tree) == {n \in names : n # "links" /\ n \notin DOMAIN tree}

\* C4 as stated: every attribute name of a stored view, other than "links",
\* and every stored link name is an attribute of the media type (of its
\* element when the root is a collection).
C4_NamesInAttributeTree ==
  \A mt \in 1..Len(defs) :
    /\ \A v \in DOMAIN defs[mt].Views :
         absent(DOMAIN nodes[defs[mt].Views[v].at], attributesOf(State, defs[mt])) = {}
    /\ DOMAIN defs[mt].Links \subseteq DOMAIN attributesOf(State, defs[mt])

\* r: the state after a View call that lists names, on media type mt with
\* the attributes tree
storedAndReported(r, mt, name, names, tree) ==
  /\ name \in DOMAIN r.defs[mt].Views
  /\ DOMAIN viewAttributes(r, mt, name) = names
  /\ "UnknownAttribute" \in r.reported <=> absent(names, tree) # {}
  /\ \A n \in absent(names, tree) : viewAttributes(r, mt, name)[n] = Placeholder

linkStoredUnchecked(r, name) ==
  /\ name \in DOMAIN r.defs[ctx].Links
  /\ r.reported = {}

\* C4, amended: when View stores a view, on a media type or on a collection,
\* every attribute name of the view other than "links" that is not an
\* attribute of the media type (of the element for a collection) is reported
\* as UnknownAttribute by that call and stays in the stored view; Link stores
\* a link name without looking it up among the attributes.
C4_UnknownNamesReported ==
  /\ \A name \in ViewNames, block \in ViewBlocks :
       definesView(name, block)
         => storedAndReported(View(Begin, name, <<block>>), ctx, name,
                              block.names, defs[ctx].attrs)
  /\ \A m \in 1..Len(defs), name \in ViewNames, block \in ViewBlocks :
       (~panicked /\ block.errs = {} /\ block.names # {})
         => storedAndReported(CollectionOf(Begin, m, <<<<DefineView(name, block)>>>>,
                                           mimeKeepsBase),
                              Len(defs) + 1, name, block.names, ToObject(defs[m]))
  /\ \A name \in LinkNames :
       (ctx # 0 /\ ~panicked /\ name \notin DOMAIN defs[ctx].Links)
         => linkStoredUnchecked(Link(Begin, name, <<>>), name)

\* a view that lists "id" on a media type without that attribute
C4_UnknownNameStored ==
  /\ call.op = "View"
  /\ "UnknownAttribute" \in reported
  /\ call.name \in DOMAIN defs[call.m].Views
  /\ "id" \in DOMAIN nodes[defs[call.m].Views[call.name].at]
  /\ "id" \notin DOMAIN defs[call.m].attrs

authoritative(r, name, names) ==
  /\ r.reported = {}
  /\ name \in DOMAIN r.defs[ctx].Views
  /\ DOMAIN viewAttributes(r, ctx, name) = names
  /\ \A n \in names : viewAttributes(r, ctx, name)[n] = defs[ctx].attrs[n]
  /\ r.defs[ctx].Views[name].at = Len(nodes) + 1

\* C5: View with a block, on an object-rooted media type, listing names
\* that are all attributes of the media type, stores a view whose attributes
\* are exactly the listed names, each with the attribute definition of the
\* media type (type and validation), not the placeholder of the block.
C5_AuthoritativeAttributes ==
  \A name \in ViewNames, block \in ViewBlocks :
    (definesView(name, block) /\ block.names \subseteq DOMAIN defs[ctx].attrs)
      => authoritative(View(Begin, name, <<block>>), name, block.names)

\* a view of "id" alone on a media type that declares "id" and "href"
C5_ViewOfDeclaredAttribute ==
  /\ call.op = "View"
  /\ reported = {}
  /\ call.name \in DOMAIN defs[call.m].Views
  /\ {"id", "href"} \subseteq DOMAIN defs[call.m].attrs
  /\ DOMAIN nodes[defs[call.m].Views[call.name].at] = {"id"}
  /\ nodes[defs[call.m].Views[call.name].at]["id"] =
       [Type |-> "Integer", Validation |-> "required", View |-> ""]

unsupported(r) ==
  /\ r.reported = {"UnsupportedViewTarget"}
  /\ r.defs = defs
  /\ r.nodes = nodes

\* C6: View on a media type whose root is neither an object nor an array
\* reports UnsupportedViewTarget and adds no view: the views of the media
\* type are the same before and after.
C6_UnsupportedViewTarget ==
  \A name \in ViewNames, dsl \in ViewDSLs :
    (ctx # 0 /\ ~panicked /\ defs[ctx].Type \notin {"Object", "Array"})
      => unsupported(View(Begin, name, dsl))

\* a View call on a media type whose root is a string
C6_ViewOnScalarRoot ==
  /\ call.op = "View"
  /\ call.m # 0
  /\ defs[call.m].Type = "String"
  /\ reported = {"UnsupportedViewTarget"}

\* r: the state after CollectionOf(m) whose block is View(name)
inherited(r, m, name) ==
  IF name \in DOMAIN defs[m].Views
  THEN /\ name \in DOMAIN r.defs[Len(defs) + 1].Views
       /\ DOMAIN viewAttributes(r, Len(defs) + 1, name) =
            DOMAIN nodes[defs[m].Views[name].at]
       /\ viewAttributes(r, Len(defs) + 1, name) = viewAttributes(r, m, name)
  ELSE /\ "UnknownView" \in r.reported
       /\ name \notin DOMAIN r.defs[Len(defs) + 1].Views

\* C7: View without a block on a collection of a media type: when the
\* element has a view of that name the collection gets a view of that name
\* with the attributes of the element's view; when it has none, UnknownView
\* is reported and the collection gets no view of that name.
C7_InheritedView ==
  \A m \in 1..Len(defs), name \in ViewNames :
    ~panicked
      => inherited(CollectionOf(Begin, m, <<<<InheritView(name)>>>>, mimeKeepsBase),
                   m, name)

\* a collection that takes the view "default" of its element
C7_ViewOfElement ==
  /\ call.op = "CollectionOf"
  /\ ret # 0
  /\ "default" \in DOMAIN defs[ret].Views
  /\ "default" \in DOMAIN defs[call.m].Views
  /\ defs[ret].Views["default"].at = defs[call.m].Views["default"].at

duplicateReported(r) ==
  /\ r.reported = {"DuplicateDefinition"}
  /\ r.defs = defs
  /\ r.nodes = nodes

\* r: the state after CollectionOf(m) whose block is View(name) twice, the
\* second time with a block; r1: after CollectionOf(m) with View(name) once
secondViewRejected(r, r1) ==
  /\ "DuplicateDefinition" \in r.reported
  /\ r.defs[Len(defs) + 1].Views = r1.defs[Len(defs) + 1].Views
  /\ r.nodes = r1.nodes

\* C10: View with a name that the media type already has a view of reports
\* DuplicateDefinition and leaves that view and the other views as they
\* were; a name is taken only when a View call stored a view under it: a
\* call on a name without a view never reports DuplicateDefinition.
C10_DuplicateView ==
  /\ \A name \in ViewNames, dsl \in ViewDSLs :
       (ctx # 0 /\ ~panicked /\ defs[ctx].Type \in {"Object", "Array"})
         => IF name \in DOMAIN defs[ctx].Views
            THEN duplicateReported(View(Begin, name, dsl))
            ELSE "DuplicateDefinition" \notin View(Begin, name, dsl).reported
  /\ \A m \in 1..Len(defs), name \in ViewNames :
       (~panicked /\ name \in DOMAIN defs[m].Views)
         => secondViewRejected(
              CollectionOf(Begin, m,
                           <<<<InheritView(name), DefineView(name, ViewBlock({"id"}, {}))>>>>,
                           mimeKeepsBase),
              CollectionOf(Begin, m, <<<<InheritView(name)>>>>, mimeKeepsBase))

\* a second view "default" on a media type that has "default" and "tiny"
C10_SecondViewRejected ==
  /\ call.op = "View"
  /\ call.name = "default"
  /\ reported = {"DuplicateDefinition"}
  /\ DOMAIN defs[call.m].Views = {"default", "tiny"}

----------------------------------------------------------------------------
(* Links (SpecLinks).                                                      *)

linked(r, name, view) ==
  /\ r.defs[ctx].Links = Put(defs[ctx].Links, name,
                             [Name |-> name, View |-> view, Parent |-> ctx])
  /\ r.reported = {}

\* C8: Link with a name alone stores a link with the view "link"; with a
\* name and a view it stores a link with that view; with a name that the
\* media type already has a link of it reports DuplicateDefinition and
\* leaves that link (name, view, parent) and the other links as they were.
C8_LinkViews ==
  \A name \in LinkNames :
    (ctx # 0 /\ ~panicked)
      => IF name \in DOMAIN defs[ctx].Links
         THEN \A view \in LinkViews : duplicateReported(Link(Begin, name, view))
         ELSE /\ linked(Link(Begin, name, <<>>), name, "link")
              /\ linked(Link(Begin, name, <<"tiny">>), name, "tiny")

\* a second link "account" on a media type with "account" rendered with the
\* view "tiny" and "origin" with the view "link"
C8_SecondLinkRejected ==
  /\ call.op = "Link"
  /\ call.name = "account"
  /\ reported = {"DuplicateDefinition"}
  /\ DOMAIN defs[call.m].Links = {"account", "origin"}
  /\ defs[call.m].Links["account"] = [Name |-> "account", View |-> "tiny", Parent |-> call.m]
  /\ defs[call.m].Links["origin"] = [Name |-> "origin", View |-> "link", Parent |-> call.m]

----------------------------------------------------------------------------
(* Type names, identifiers and the counter (SpecRegistry).                 *)

\* the part of a media type after its slash, the media type when it has none
subtypeOf(t) == IF Index(t, "/") = 0 THEN t ELSE Drop(t, Index(t, "/"))

lastSegment(elems) == elems[Len(elems)]

\* the last dot-delimited segment of the subtype of the identifier as given
\* (of the identifier when it has no slash), without its parameters, in
\* camel case
segmentName(p) == Camelize(lastSegment(Split(subtypeOf(p.mediatype), ".")))

\* C11: the type name MediaType gives to the definition of a well-formed
\* identifier is the last dot-delimited segment of the identifier's subtype
\* in camel case, also when the identifier has parameters or a subtype
\* without a dot.
C11_TypeNameIsLastSegment ==
  [][(call'.op = "MediaType" /\ ret' # 0 /\ ~Parsed[call'.id][mimeKeepsBase].err)
       => defs'[ret'].TypeName = segmentName(Parsed[call'.id][mimeKeepsBase])]_vars

\* p: the identifier as given, parsed; q: the identifier of the definition,
\* parsed
normalizedAs(p, q) ==
  /\ ~q.err
  /\ q.params = p.params
  /\ Index(p.mediatype, "/") = 0 => q.mediatype = p.mediatype \o Json
  /\ Index(p.mediatype, "/") # 0 => q.mediatype = p.mediatype

registeredAs(r, p) ==
  /\ r.ret = Len(defs) + 1
  /\ r.reported = {}
  /\ r.MediaTypes = Put(MediaTypes, r.defs[r.ret].Identifier, r.ret)
  /\ normalizedAs(p, Parsed[r.defs[r.ret].Identifier][mimeKeepsBase])

\* C12: MediaType registers a well-formed identifier that is not yet in the
\* registry under its canonical form: its base followed by "/json" when the
\* base has no slash, its base as it is when it has one, and its parameters.
C12_CanonicalIdentifier ==
  \A identifier \in Identifiers :
    (/\ ctx = 0
     /\ ~panicked
     /\ ~Parsed[identifier][mimeKeepsBase].err
     /\ Canonical[identifier][mimeKeepsBase] \notin DOMAIN MediaTypes)
      => registeredAs(MediaType(Begin, identifier, mimeKeepsBase),
                      Parsed[identifier][mimeKeepsBase])

\* "v.b" registered as "v.b/json"
C12_DefaultSubtype ==
  /\ call.op = "MediaType"
  /\ call.id = <<"v", ".", "b">>
  /\ ret # 0
  /\ defs[ret].Identifier = <<"v", ".", "b", "/", "j", "s", "o", "n">>
  /\ MediaTypes[<<"v", ".", "b", "/", "j", "s", "o", "n">>] = ret

----------------------------------------------------------------------------
(* Links with several views (SpecLinks).                                   *)

storedDespiteSyntax(r, name, view) ==
  /\ r.reported = {"InvalidLinkSyntax"}
  /\ r.defs[ctx].Links = Put(defs[ctx].Links, name,
                             [Name |-> name, View |-> view[1], Parent |-> ctx])

\* C13: Link with more than one view, for a name the media type has no link
\* of, reports InvalidLinkSyntax and stores the link with the first view.
C13_InvalidLinkSyntaxStored ==
  \A name \in LinkNames, view \in LinkViews :
    (ctx # 0 /\ ~panicked /\ Len(view) > 1 /\ name \notin DOMAIN defs[ctx].Links)
      => storedDespiteSyntax(Link(Begin, name, view), name, view)

\* Link("origin", "tiny", "default")
C13_LinkWithTwoViews ==
  /\ call.op = "Link"
  /\ call.name = "origin"
  /\ reported = {"InvalidLinkSyntax"}
  /\ "origin" \in DOMAIN defs[call.m].Links
  /\ defs[call.m].Links["origin"].View = "tiny"

----------------------------------------------------------------------------
(* Responses (SpecResponses).                                              *)

mediaSet(r, identifier) ==
  /\ r.response = [response EXCEPT !.MediaType = identifier]
  /\ r.reported = {}

mediaRefused(r) ==
  /\ r.response = response
  /\ r.reported = {"InvalidArgument"}

\* C14: Media in a response sets the media type of the response to the
\* identifier of the media type it is given, or to the string it is given;
\* given a value of another kind it reports InvalidArgument and leaves the
\* media type of the response as it was.
C14_ResponseMedia ==
  \A val \in MediaValues(Len(defs)) :
    (response.open /\ ctx = 0 /\ ~panicked)
      => CASE val.kind = "MediaType" /\ val.m # 0
                -> mediaSet(Media(Begin, val), defs[val.m].Identifier)
           [] val.kind = "MediaType" /\ val.m = 0 -> TRUE
           [] val.kind = "string" -> mediaSet(Media(Begin, val), val.str)
           [] OTHER -> mediaRefused(Media(Begin, val))

\* Media(1) after Media("t/j"), then Media of an integer
C14_IntegerRefused ==
  /\ call.op = "Media"
  /\ call.name = "int"
  /\ reported = {"InvalidArgument"}
  /\ response.open
  /\ Len(defs) > 0
  /\ response.MediaType = defs[1].Identifier

----------------------------------------------------------------------------
(* The counter of synthetic names (SpecCounter).                           *)

SyntheticName(n) == MediaTypePrefix \o ToDecimal(n)

isSynthetic(name) == \E n \in 1..(MaxCount + 1) : name = SyntheticName(n)

\* C15: the counter never decreases; a definition that gets a synthetic
\* name gets the one of the counter just incremented, so that no synthetic
\* name is given twice and no two definitions have the same synthetic name.
C15_SyntheticNamesUnique ==
  [][/\ mediaTypeCount' >= mediaTypeCount
     /\ \A d \in 1..Len(defs') :
          (d > Len(defs) /\ isSynthetic(defs'[d].TypeName))
            => /\ mediaTypeCount' = mediaTypeCount + 1
               /\ defs'[d].TypeName = SyntheticName(mediaTypeCount')
     /\ \A d \in 1..Len(defs') :
          isSynthetic(defs'[d].TypeName)
            => /\ \E n \in 1..mediaTypeCount' : defs'[d].TypeName = SyntheticName(n)
               /\ \A e \in 1..Len(defs') :
                    e # d => defs'[e].TypeName # defs'[d].TypeName]_vars

\* two definitions named MediaType1 and MediaType2
C15_TwoSyntheticNames ==
  /\ call.op = "MediaType"
  /\ mediaTypeCount = 2
  /\ \E d, e \in 1..Len(defs) :
       /\ defs[d].TypeName = SyntheticName(1)
       /\ defs[e].TypeName = SyntheticName(2)

----------------------------------------------------------------------------
(* The type name of a collection (SpecRegistry).                           *)

Custom == <<"C", "u", "s", "t", "o", "m">>

namedAs(r, typeName) ==
  /\ r.ret = Len(defs) + 1
  /\ r.defs[r.ret].TypeName = typeName

\* C16: when the block given to CollectionOf sets the type name, the
\* definition CollectionOf returns has that name; when it does not, the
\* definition has the type name of the element followed by "Collection".
C16_CollectionTypeName ==
  \A m \in 1..Len(defs), dsl \in RegistryDSLs :
    (~panicked /\ ~Parsed[defs[m].Identifier][mimeKeepsBase].err)
      => namedAs(CollectionOf(Begin, m, dsl, mimeKeepsBase),
                 IF dsl = <<<<SetTypeName(Custom)>>>> THEN Custom
                 ELSE defs[m].TypeName \o CollectionSuffix)

\* a collection whose block is TypeName("Custom")
C16_NameOverridden ==
  /\ call.op = "CollectionOf"
  /\ ret # 0
  /\ defs[ret].TypeName = Custom
  /\ MediaTypes[defs[ret].Identifier] = ret

----------------------------------------------------------------------------
(* The entry of the element (SpecRegistry).                                *)

\* C17: CollectionOf(m) of a registered media type m never replaces or
\* removes the entry of m: the registry still maps the identifier of m to m
\* afterwards, also when that identifier has a type parameter and when m is
\* a collection.
C17_ElementEntryKept ==
  [][(/\ call'.op = "CollectionOf"
      /\ ret' # 0
      /\ defs[call'.m].Identifier \in DOMAIN MediaTypes
      /\ MediaTypes[defs[call'.m].Identifier] = call'.m)
       => /\ defs[call'.m].Identifier \in DOMAIN MediaTypes'
          /\ MediaTypes'[defs[call'.m].Identifier] = call'.m]_vars

----------------------------------------------------------------------------
(* Views: what a View call leaves behind (SpecViews).                      *)

\* C18: View without a block in a collection does not modify the element:
\* each view of the element, with every attribute it holds, is the same
\* before and after the CollectionOf call whose block inherits views.
C18_ElementViewUntouched ==
  [][call'.op = "CollectionOf"
       => /\ defs'[call'.m] = defs[call'.m]
          /\ \A v \in DOMAIN defs[call'.m].Views :
               nodes'[defs'[call'.m].Views[v].at] = nodes[defs[call'.m].Views[v].at]]_vars

\* C19: a View call on a media type stores a view under the name it is
\* given or reports a diagnostic: it never ends with no view and no report.
C19_ViewStoredOrReported ==
  [][(call'.op = "View" /\ ctx # 0)
       => \/ /\ call'.name \notin DOMAIN defs[ctx].Views
             /\ call'.name \in DOMAIN defs'[ctx].Views
          \/ reported' # {}]_vars

----------------------------------------------------------------------------
(* The stores: registry, views and links (SpecStore).                      *)

keyed(r) ==
  \A k \in DOMAIN r.MediaTypes : r.defs[r.MediaTypes[k]].Identifier = k

viewsOwned(r) ==
  \A mt \in 1..Len(r.defs) : \A n \in DOMAIN r.defs[mt].Views :
    r.defs[mt].Views[n].Name = n /\ r.defs[mt].Views[n].Parent = mt

linksOwned(r) ==
  \A mt \in 1..Len(r.defs) : \A n \in DOMAIN r.defs[mt].Links :
    r.defs[mt].Links[n].Name = n /\ r.defs[mt].Links[n].Parent = mt

\* C20: after any sequence of MediaType, CollectionOf, TypeName, View and
\* Link calls, the registry holds under key k a definition whose identifier
\* is k, every view stored under n on mt has Name n and Parent mt (inherited
\* views too), and every link stored under n on mt has Name n and Parent mt.
C20_StoresConsistent == keyed(State) /\ viewsOwned(State) /\ linksOwned(State)

\* a registered collection with a view inherited from its element (the two
\* share the attribute node) and a link of its own
C20_InheritedViewStored ==
  \E k \in DOMAIN MediaTypes :
    /\ defs[MediaTypes[k]].Type = "Array"
    /\ "default" \in DOMAIN defs[MediaTypes[k]].Views
    /\ "default" \in DOMAIN defs[defs[MediaTypes[k]].ElemType].Views
    /\ defs[MediaTypes[k]].Views["default"].at
         = defs[defs[MediaTypes[k]].ElemType].Views["default"].at
    /\ "account" \in DOMAIN defs[MediaTypes[k]].Links
    /\ "account" \in DOMAIN defs[defs[MediaTypes[k]].ElemType].Links

====
